---- MODULE Spec2Model ----
(***************************************************************************)
(* RoboPredictor (task1/PredictionAlgorithm/PredictionAlgorithm.cpp).      *)
(*                                                                         *)
(* A RoboPredictor owns one RoboMemory: three unordered maps (single       *)
(* planet tallies, last outcome per ordered pair, last outcome per ordered *)
(* triple), two optional planet identifiers and a streak counter.          *)
(* predictTimeOfDayOnNextPlanet reads the memory,                          *)
(* observeAndRecordTimeofdayOnNextPlanet updates it.                       *)
(*                                                                         *)
(* Two predictors are constructed and driven by the same calls, so that    *)
(* replaying a call sequence can be compared run against run.              *)
(***************************************************************************)
EXTENDS Integers, Sequences, FiniteSets, TLC

\* ---------------------------------------------------------------- bounds
\* Number of distinct planet identifiers the caller uses (0 .. NumPlanets-1).
NumPlanets == 3

\* Number of observe calls of one run.
MaxObserve == 4

Planets == 0 .. (NumPlanets - 1)

\* Number of observe calls of a run that shuttles between two planets.
MaxObserveLong == 6

TwoPlanets == {0, 1}

\* Number of observe calls of a tour that visits a new planet at every call.
TourLength == 1140

VARIABLES
    roboMemory,        \* *roboMemory_ptr of the predictor
    twinMemory,        \* *roboMemory_ptr of a second predictor fed the same calls
    lastCall,          \* "none", "predict" or "observe": the most recent call
    predId,            \* nextPlanetID of that call when it was a predict call
    predHint,          \* spaceshipComputerPrediction of that predict call
    prediction,        \* value that predict call returned
    twinPrediction,    \* value the second predictor returned for it
    dayPredictionRun,  \* consecutive predict calls that returned true (alternating calls)
    confirmedDayRun,   \* the same, each but the last followed by an observed day
    obsLog             \* the observe calls so far, each with the pre-call identifiers

vars == <<roboMemory, twinMemory, lastCall, predId, predHint, prediction,
          twinPrediction, dayPredictionRun, confirmedDayRun, obsLog>>

\* ------------------------------------------------------- std::optional
nullopt == <<>>

has_value(opt) == Len(opt) = 1

value(opt) == opt[1]

some(v) == <<v>>

\* -------------------------------------------------- std::unordered_map
EmptyMap == [k \in {} |-> FALSE]

\* m.find(k) != m.end()
MapFound(m, k) == k \in DOMAIN m

\* m[k] = v : inserts the key when absent, overwrites when present
MapAssign(m, k, v) == [x \in (DOMAIN m) \cup {k} |-> IF x = k THEN v ELSE m[x]]

\* m[k] used as an lvalue: a missing key is inserted with a value-initialised
\* mapped value
MapIndexLeaves(m, k, dflt) == IF k \in DOMAIN m THEN m ELSE MapAssign(m, k, dflt)

\* m.find(k) leaves the container as it is
MapFindLeaves(m, k, dflt) == m

\* std::hash<std::uint64_t>: the value itself (libstdc++, libc++).
StdHash(v) == v

\* a ^ b on unsigned integers
RECURSIVE Xor(_, _)
Xor(a, b) ==
    IF a = 0 THEN b
    ELSE IF b = 0 THEN a
    ELSE (((a % 2) + (b % 2)) % 2) + (2 * Xor(a \div 2, b \div 2))

\* pair_hash: hash(first) ^ hash(second)
pair_hash(pair) == Xor(StdHash(pair[1]), StdHash(pair[2]))

\* triple_hash: hash(get<0>) ^ hash(get<1>) ^ hash(get<2>)
triple_hash(triple) ==
    Xor(Xor(StdHash(triple[1]), StdHash(triple[2])), StdHash(triple[3]))

\* The hash the map of the key's arity uses.
KeyHash(key) == IF Len(key) = 2 THEN pair_hash(key) ELSE triple_hash(key)

\* std::equal_to on std::pair / std::tuple: component by component, in order
KeyEqualByHash(x, k) == KeyHash(x) = KeyHash(k)

KeyEqual(x, k) == x = k

\* The stored keys find(k) of a map with a custom hash stops at: those whose
\* hash code is that of k and which compare equal to k.
HashFind(m, k) == { x \in DOMAIN m : KeyEqual(x, k) /\ KeyHash(x) = KeyHash(k) }

\* find(k) != end()
HashFound(m, k) == HashFind(m, k) # {}

\* find(k)->second
HashAt(m, k) == m[CHOOSE x \in HashFind(m, k) : TRUE]

\* m[k] = v on a map with a custom hash: the entry find(k) stops at is
\* overwritten, and k is inserted when there is none.
HashAssign(m, k, v) ==
    IF HashFound(m, k)
    THEN [m EXCEPT ![CHOOSE x \in HashFind(m, k) : TRUE] = v]
    ELSE MapAssign(m, k, v)

\* TimeStats{} : both counters start at 0
TimeStats == [dayCount |-> 0, nightCount |-> 0]

\* ------------------------------------------------------- construction
\* new RoboMemory: empty maps, disengaged optionals, counter 0 (NSDMI).
NewRoboMemoryUninit ==
    { [planetObservations |-> EmptyMap,
       planetPairObservations |-> EmptyMap,
       planetTripleObservations |-> EmptyMap,
       lastPlanetID |-> nullopt,
       lastLastPlanetID |-> nullopt,
       consecutiveDayCount |-> c] : c \in 0 .. 2 }

NewRoboMemory ==
    { [planetObservations |-> EmptyMap,
       planetPairObservations |-> EmptyMap,
       planetTripleObservations |-> EmptyMap,
       lastPlanetID |-> nullopt,
       lastLastPlanetID |-> nullopt,
       consecutiveDayCount |-> 0] }

Init ==
    /\ roboMemory \in NewRoboMemory
    /\ twinMemory \in NewRoboMemory
    /\ lastCall = "none"
    /\ predId = 0
    /\ predHint = FALSE
    /\ prediction = FALSE
    /\ twinPrediction = FALSE
    /\ dayPredictionRun = 0
    /\ confirmedDayRun = 0
    /\ obsLog = <<>>

\* ------------------------------------------------------------ predict
\* Step 1: if (consecutiveDayCount >= 2) return false;
StreakOverrideAt3(mem) == mem.consecutiveDayCount >= 3

StreakOverride(mem) == mem.consecutiveDayCount >= 2

\* Step 2: the triple key exists only when both optionals are engaged.
TripleKey(mem, nextPlanetID) ==
    <<value(mem.lastLastPlanetID), value(mem.lastPlanetID), nextPlanetID>>

hasTriplePrediction(mem, nextPlanetID) ==
    /\ has_value(mem.lastLastPlanetID)
    /\ has_value(mem.lastPlanetID)
    /\ HashFound(mem.planetTripleObservations, TripleKey(mem, nextPlanetID))

triplePrediction(mem, nextPlanetID) ==
    IF hasTriplePrediction(mem, nextPlanetID)
    THEN HashAt(mem.planetTripleObservations, TripleKey(mem, nextPlanetID))
    ELSE FALSE

\* Step 3: the pair key exists only when lastPlanetID is engaged.
PairKey(mem, nextPlanetID) == <<value(mem.lastPlanetID), nextPlanetID>>

hasPairPrediction(mem, nextPlanetID) ==
    /\ has_value(mem.lastPlanetID)
    /\ HashFound(mem.planetPairObservations, PairKey(mem, nextPlanetID))

pairPrediction(mem, nextPlanetID) ==
    IF hasPairPrediction(mem, nextPlanetID)
    THEN HashAt(mem.planetPairObservations, PairKey(mem, nextPlanetID))
    ELSE FALSE

\* Step 4: triple, pair and spaceship predictions all agree.
ConsistentPairOnly(mem, nextPlanetID, spaceshipComputerPrediction) ==
    /\ hasPairPrediction(mem, nextPlanetID)
    /\ pairPrediction(mem, nextPlanetID) = spaceshipComputerPrediction

Consistent(mem, nextPlanetID, spaceshipComputerPrediction) ==
    /\ hasTriplePrediction(mem, nextPlanetID)
    /\ hasPairPrediction(mem, nextPlanetID)
    /\ triplePrediction(mem, nextPlanetID) = pairPrediction(mem, nextPlanetID)
    /\ pairPrediction(mem, nextPlanetID) = spaceshipComputerPrediction

\* Step 5: dayCount > nightCount of the single planet record.
historyPrediction(stats) == stats.dayCount > stats.nightCount

\* Step 6: without a single planet record the spaceship prediction is returned.
DefaultNight(spaceshipComputerPrediction) == FALSE

DefaultPrediction(spaceshipComputerPrediction) == spaceshipComputerPrediction

\* The value predictTimeOfDayOnNextPlanet returns.
predictSingleRecordFirst(mem, nextPlanetID, spaceshipComputerPrediction) ==
    IF StreakOverride(mem)
    THEN FALSE
    ELSE IF MapFound(mem.planetObservations, nextPlanetID)
         THEN historyPrediction(mem.planetObservations[nextPlanetID])
         ELSE IF Consistent(mem, nextPlanetID, spaceshipComputerPrediction)
              THEN spaceshipComputerPrediction
              ELSE DefaultPrediction(spaceshipComputerPrediction)

predictTimeOfDayOnNextPlanet(mem, nextPlanetID, spaceshipComputerPrediction) ==
    IF StreakOverride(mem)
    THEN FALSE
    ELSE IF Consistent(mem, nextPlanetID, spaceshipComputerPrediction)
         THEN spaceshipComputerPrediction
         ELSE IF MapFound(mem.planetObservations, nextPlanetID)
              THEN historyPrediction(mem.planetObservations[nextPlanetID])
              ELSE DefaultPrediction(spaceshipComputerPrediction)

\* The lookup predict makes in a map: find(), which inserts nothing.
PredictLookupInserting(m, k, dflt) == MapIndexLeaves(m, k, dflt)

PredictLookup(m, k, dflt) == MapFindLeaves(m, k, dflt)

\* The memory predictTimeOfDayOnNextPlanet leaves behind: the lookups it
\* makes before it returns, in the order of the code.
MemoryAfterPredict(mem, nextPlanetID, spaceshipComputerPrediction) ==
    IF StreakOverride(mem)
    THEN mem
    ELSE
      LET m1 == IF has_value(mem.lastLastPlanetID) /\ has_value(mem.lastPlanetID)
                THEN [mem EXCEPT !.planetTripleObservations =
                        PredictLookup(@, TripleKey(mem, nextPlanetID), FALSE)]
                ELSE mem
          m2 == IF has_value(m1.lastPlanetID)
                THEN [m1 EXCEPT !.planetPairObservations =
                        PredictLookup(@, PairKey(m1, nextPlanetID), FALSE)]
                ELSE m1
      IN  IF Consistent(mem, nextPlanetID, spaceshipComputerPrediction)
          THEN m2
          ELSE [m2 EXCEPT !.planetObservations =
                  PredictLookup(@, nextPlanetID, TimeStats)]

\* ------------------------------------------------------------ observe
\* consecutiveDayCount++ on day, = 0 on night
UpdateStreakNoReset(mem, timeOfDayOnNextPlanet) ==
    [mem EXCEPT !.consecutiveDayCount =
        IF timeOfDayOnNextPlanet THEN @ + 1 ELSE @]

UpdateStreak(mem, timeOfDayOnNextPlanet) ==
    [mem EXCEPT !.consecutiveDayCount =
        IF timeOfDayOnNextPlanet THEN @ + 1 ELSE 0]

\* planetTripleObservations[triple] = timeOfDayOnNextPlanet
RecordTripleKeepFirst(mem, nextPlanetID, timeOfDayOnNextPlanet) ==
    IF has_value(mem.lastLastPlanetID) /\ has_value(mem.lastPlanetID)
    THEN [mem EXCEPT !.planetTripleObservations =
            MapIndexLeaves(@, TripleKey(mem, nextPlanetID), timeOfDayOnNextPlanet)]
    ELSE mem

RecordTriple(mem, nextPlanetID, timeOfDayOnNextPlanet) ==
    IF has_value(mem.lastLastPlanetID) /\ has_value(mem.lastPlanetID)
    THEN [mem EXCEPT !.planetTripleObservations =
            HashAssign(@, TripleKey(mem, nextPlanetID), timeOfDayOnNextPlanet)]
    ELSE mem

\* planetPairObservations[pair] = timeOfDayOnNextPlanet
RecordPairKeepFirst(mem, nextPlanetID, timeOfDayOnNextPlanet) ==
    IF has_value(mem.lastPlanetID)
    THEN [mem EXCEPT !.planetPairObservations =
            MapIndexLeaves(@, PairKey(mem, nextPlanetID), timeOfDayOnNextPlanet)]
    ELSE mem

RecordPairSwapped(mem, nextPlanetID, timeOfDayOnNextPlanet) ==
    IF has_value(mem.lastPlanetID)
    THEN [mem EXCEPT !.planetPairObservations =
            MapAssign(@, <<nextPlanetID, value(mem.lastPlanetID)>>,
                      timeOfDayOnNextPlanet)]
    ELSE mem

RecordPair(mem, nextPlanetID, timeOfDayOnNextPlanet) ==
    IF has_value(mem.lastPlanetID)
    THEN [mem EXCEPT !.planetPairObservations =
            HashAssign(@, PairKey(mem, nextPlanetID), timeOfDayOnNextPlanet)]
    ELSE mem

\* lastLastPlanetID = lastPlanetID; lastPlanetID = nextPlanetID;
ShiftHistoryWrongOrder(mem, nextPlanetID) ==
    [mem EXCEPT !.lastPlanetID = some(nextPlanetID),
                !.lastLastPlanetID = some(nextPlanetID)]

ShiftHistoryNoLastLast(mem, nextPlanetID) ==
    [mem EXCEPT !.lastPlanetID = some(nextPlanetID)]

ShiftHistory(mem, nextPlanetID) ==
    [mem EXCEPT !.lastLastPlanetID = mem.lastPlanetID,
                !.lastPlanetID = some(nextPlanetID)]

\* auto& stats = planetObservations[nextPlanetID]; stats.dayCount++ / nightCount++
UpdateStatsSwapped(mem, nextPlanetID, timeOfDayOnNextPlanet) ==
    LET m == MapIndexLeaves(mem.planetObservations, nextPlanetID, TimeStats)
        stats == m[nextPlanetID]
    IN  [mem EXCEPT !.planetObservations =
            MapAssign(m, nextPlanetID,
                IF timeOfDayOnNextPlanet
                THEN [stats EXCEPT !.nightCount = @ + 1]
                ELSE [stats EXCEPT !.dayCount = @ + 1])]

UpdateStatsBoth(mem, nextPlanetID, timeOfDayOnNextPlanet) ==
    LET m == MapIndexLeaves(mem.planetObservations, nextPlanetID, TimeStats)
        stats == m[nextPlanetID]
    IN  [mem EXCEPT !.planetObservations =
            MapAssign(m, nextPlanetID,
                IF timeOfDayOnNextPlanet
                THEN [stats EXCEPT !.dayCount = @ + 1, !.nightCount = @ + 1]
                ELSE [stats EXCEPT !.nightCount = @ + 1])]

UpdateStats(mem, nextPlanetID, timeOfDayOnNextPlanet) ==
    LET m == MapIndexLeaves(mem.planetObservations, nextPlanetID, TimeStats)
        stats == m[nextPlanetID]
    IN  [mem EXCEPT !.planetObservations =
            MapAssign(m, nextPlanetID,
                IF timeOfDayOnNextPlanet
                THEN [stats EXCEPT !.dayCount = @ + 1]
                ELSE [stats EXCEPT !.nightCount = @ + 1])]

\* The memory observeAndRecordTimeofdayOnNextPlanet leaves behind: the five
\* updates in the order of the code.
observeShiftFirst(mem, nextPlanetID, timeOfDayOnNextPlanet) ==
    LET m1 == UpdateStreak(mem, timeOfDayOnNextPlanet)
        m2 == ShiftHistory(m1, nextPlanetID)
        m3 == RecordTriple(m2, nextPlanetID, timeOfDayOnNextPlanet)
        m4 == RecordPair(m3, nextPlanetID, timeOfDayOnNextPlanet)
    IN  UpdateStats(m4, nextPlanetID, timeOfDayOnNextPlanet)

observeAndRecordTimeofdayOnNextPlanet(mem, nextPlanetID, timeOfDayOnNextPlanet) ==
    LET m1 == UpdateStreak(mem, timeOfDayOnNextPlanet)
        m2 == RecordTriple(m1, nextPlanetID, timeOfDayOnNextPlanet)
        m3 == RecordPair(m2, nextPlanetID, timeOfDayOnNextPlanet)
        m4 == ShiftHistory(m3, nextPlanetID)
    IN  UpdateStats(m4, nextPlanetID, timeOfDayOnNextPlanet)

\* ------------------------------------------------------------ actions
\* Length of the run of day predictions after a predict call returning ret.
\* Only predictions separated by exactly one observe call continue a run.
RunAfterPredict(run, ret) ==
    IF ~ret THEN 0
    ELSE IF lastCall = "predict" THEN 1
    ELSE IF run < 3 THEN run + 1 ELSE 3

\* A call of predictTimeOfDayOnNextPlanet on both predictors.
Predict(nextPlanetID, spaceshipComputerPrediction) ==
    /\ roboMemory' = MemoryAfterPredict(roboMemory, nextPlanetID, spaceshipComputerPrediction)
    /\ twinMemory' = MemoryAfterPredict(twinMemory, nextPlanetID, spaceshipComputerPrediction)
    /\ prediction' = predictTimeOfDayOnNextPlanet(roboMemory, nextPlanetID,
                                                  spaceshipComputerPrediction)
    /\ twinPrediction' = predictTimeOfDayOnNextPlanet(twinMemory, nextPlanetID,
                                                      spaceshipComputerPrediction)
    /\ lastCall' = "predict"
    /\ predId' = nextPlanetID
    /\ predHint' = spaceshipComputerPrediction
    /\ dayPredictionRun' = RunAfterPredict(dayPredictionRun, prediction')
    /\ confirmedDayRun' = RunAfterPredict(confirmedDayRun, prediction')
    /\ UNCHANGED obsLog

\* A call of observeAndRecordTimeofdayOnNextPlanet on both predictors.
Observe(nextPlanetID, timeOfDayOnNextPlanet) ==
    /\ roboMemory' = observeAndRecordTimeofdayOnNextPlanet(roboMemory, nextPlanetID,
                                                           timeOfDayOnNextPlanet)
    /\ twinMemory' = observeAndRecordTimeofdayOnNextPlanet(twinMemory, nextPlanetID,
                                                           timeOfDayOnNextPlanet)
    /\ obsLog' = Append(obsLog, [id |-> nextPlanetID,
                                 outcome |-> timeOfDayOnNextPlanet,
                                 last |-> roboMemory.lastPlanetID,
                                 lastLast |-> roboMemory.lastLastPlanetID])
    /\ lastCall' = "observe"
    /\ dayPredictionRun' = IF lastCall = "predict" THEN dayPredictionRun ELSE 0
    /\ confirmedDayRun' = IF lastCall = "predict" /\ timeOfDayOnNextPlanet
                          THEN confirmedDayRun ELSE 0
    /\ predId' = 0
    /\ predHint' = FALSE
    /\ prediction' = FALSE
    /\ twinPrediction' = FALSE

PredictCall ==
    \E nextPlanetID \in Planets, spaceshipComputerPrediction \in BOOLEAN :
        Predict(nextPlanetID, spaceshipComputerPrediction)

ObserveCall ==
    /\ Len(obsLog) < MaxObserve
    /\ \E nextPlanetID \in Planets, timeOfDayOnNextPlanet \in BOOLEAN :
        Observe(nextPlanetID, timeOfDayOnNextPlanet)

Next == PredictCall \/ ObserveCall

Spec == Init /\ [][Next]_vars

\* A longer run of a caller that shuttles between two planets.
PredictCallLong ==
    \E nextPlanetID \in TwoPlanets, spaceshipComputerPrediction \in BOOLEAN :
        Predict(nextPlanetID, spaceshipComputerPrediction)

ObserveCallLong ==
    /\ Len(obsLog) < MaxObserveLong
    /\ \E nextPlanetID \in TwoPlanets, timeOfDayOnNextPlanet \in BOOLEAN :
        Observe(nextPlanetID, timeOfDayOnNextPlanet)

NextLong == PredictCallLong \/ ObserveCallLong

SpecLong == Init /\ [][NextLong]_vars

\* A tour: every observe call names a planet never visited before (the
\* identifiers 0, 1, 2, ...), and night falls on every third planet.
PredictCallTour ==
    /\ lastCall # "predict"
    /\ Predict(Len(obsLog), TRUE)

ObserveCallTour ==
    /\ Len(obsLog) < TourLength
    /\ Observe(Len(obsLog), Len(obsLog) % 3 # 2)

NextTour == PredictCallTour \/ ObserveCallTour

SpecTour == Init /\ [][NextTour]_vars

\* ============================================================ properties
NumObserved == Len(obsLog)

\* The two most recent observe calls both recorded day.
LastTwoDay ==
    /\ NumObserved >= 2
    /\ obsLog[NumObserved].outcome
    /\ obsLog[NumObserved - 1].outcome

\* C1 (streak cap): the two most recent observe calls both recorded day
\* exactly when consecutiveDayCount >= 2, and then predict returns false for
\* every nextPlanetID and every spaceship prediction, whatever the maps hold.
C1_StreakCap ==
    /\ LastTwoDay <=> roboMemory.consecutiveDayCount >= 2
    /\ LastTwoDay =>
         \A n \in Planets, hint \in BOOLEAN :
            predictTimeOfDayOnNextPlanet(roboMemory, n, hint) = FALSE
    /\ (LastTwoDay /\ lastCall = "predict") => prediction = FALSE

\* A predict call after two observed days, with a hint of day for a planet
\* whose tally says day, returned night.
C1_Witness ==
    /\ LastTwoDay
    /\ lastCall = "predict"
    /\ predHint = TRUE
    /\ MapFound(roboMemory.planetObservations, predId)
    /\ historyPrediction(roboMemory.planetObservations[predId])
    /\ prediction = FALSE

\* C2 (fallback correctness): before any observe call the memory is the
\* freshly constructed one and predict(x, hint) returns exactly hint.
C2_FreshFallback ==
    NumObserved = 0 =>
        /\ roboMemory \in NewRoboMemory
        /\ roboMemory.planetObservations = EmptyMap
        /\ roboMemory.planetPairObservations = EmptyMap
        /\ roboMemory.planetTripleObservations = EmptyMap
        /\ ~has_value(roboMemory.lastPlanetID)
        /\ ~has_value(roboMemory.lastLastPlanetID)
        /\ roboMemory.consecutiveDayCount = 0
        /\ \A x \in Planets, hint \in BOOLEAN :
              predictTimeOfDayOnNextPlanet(roboMemory, x, hint) = hint
        /\ lastCall = "predict" => prediction = predHint

\* A predict call on the fresh predictor with a hint of day returned day.
C2_Witness ==
    /\ NumObserved = 0
    /\ lastCall = "predict"
    /\ predHint = TRUE
    /\ prediction = TRUE

\* C3 (predict is read-only): a predict call leaves every field of the memory
\* unchanged, a lookup miss inserting nothing, so the result of every later
\* predict is what it was before the call.
C3_PredictReadOnly ==
    [][lastCall' = "predict" =>
          /\ roboMemory' = roboMemory
          /\ \A n \in Planets, hint \in BOOLEAN :
                predictTimeOfDayOnNextPlanet(roboMemory', n, hint)
                    = predictTimeOfDayOnNextPlanet(roboMemory, n, hint)]_vars

\* A predict call that went through the three lookups and missed the pair and
\* the single planet record.
C3_Witness ==
    /\ lastCall = "predict"
    /\ ~StreakOverride(roboMemory)
    /\ has_value(roboMemory.lastLastPlanetID)
    /\ ~hasTriplePrediction(roboMemory, predId)
    /\ ~hasPairPrediction(roboMemory, predId)
    /\ ~MapFound(roboMemory.planetObservations, predId)

TripleAndPairSayDay(mem, C) ==
    /\ hasTriplePrediction(mem, C)
    /\ hasPairPrediction(mem, C)
    /\ triplePrediction(mem, C) = TRUE
    /\ pairPrediction(mem, C) = TRUE

\* C5 as stated (triple consensus overrides pair/single): whenever the triple
\* (lastLast, last, C) and the pair (last, C) are both recorded as day,
\* predict(C, true) returns true.
C5_AsStated ==
    \A C \in Planets :
        TripleAndPairSayDay(roboMemory, C) =>
            predictTimeOfDayOnNextPlanet(roboMemory, C, TRUE) = TRUE

\* C5 amended: whenever the triple (lastLast, last, C) and the pair (last, C)
\* are both recorded as day and consecutiveDayCount < 2, predict(C, true)
\* returns true, also when the tally of C has nightCount >= dayCount.
C5_TripleConsensus ==
    /\ \A C \in Planets :
          (TripleAndPairSayDay(roboMemory, C) /\ roboMemory.consecutiveDayCount < 2) =>
              predictTimeOfDayOnNextPlanet(roboMemory, C, TRUE) = TRUE
    /\ ( /\ lastCall = "predict"
         /\ predHint = TRUE
         /\ TripleAndPairSayDay(roboMemory, predId)
         /\ roboMemory.consecutiveDayCount < 2 ) => prediction = TRUE

\* A predict call answered day by the consensus although the planet has seen
\* at least as many nights as days.
C5_Witness ==
    /\ lastCall = "predict"
    /\ predHint = TRUE
    /\ TripleAndPairSayDay(roboMemory, predId)
    /\ roboMemory.consecutiveDayCount < 2
    /\ roboMemory.planetObservations[predId].nightCount
          >= roboMemory.planetObservations[predId].dayCount
    /\ prediction = TRUE

\* The outcomes the observe calls recorded for planet P, oldest first.
RECURSIVE OutcomesOf(_, _)
OutcomesOf(log, P) ==
    IF log = <<>> THEN <<>>
    ELSE IF log[1].id = P
         THEN <<log[1].outcome>> \o OutcomesOf(Tail(log), P)
         ELSE OutcomesOf(Tail(log), P)

\* C6 (single-history majority): after day, day, night have been observed for
\* planet P, with consecutiveDayCount < 2 and the consensus of pair and triple
\* record not met for a hint of night, predict(P, false) returns true.
C6_SingleMajority ==
    /\ \A P \in Planets :
          ( /\ OutcomesOf(obsLog, P) = <<TRUE, TRUE, FALSE>>
            /\ roboMemory.consecutiveDayCount < 2
            /\ ~Consistent(roboMemory, P, FALSE) ) =>
              predictTimeOfDayOnNextPlanet(roboMemory, P, FALSE) = TRUE
    /\ ( /\ lastCall = "predict"
         /\ predHint = FALSE
         /\ OutcomesOf(obsLog, predId) = <<TRUE, TRUE, FALSE>>
         /\ roboMemory.consecutiveDayCount < 2
         /\ ~Consistent(roboMemory, predId, FALSE) ) => prediction = TRUE

\* predict(P, false) returned day after day, day, night for P, with neither a
\* pair nor a triple record for the transition to P.
C6_Witness ==
    /\ lastCall = "predict"
    /\ predHint = FALSE
    /\ OutcomesOf(obsLog, predId) = <<TRUE, TRUE, FALSE>>
    /\ ~hasPairPrediction(roboMemory, predId)
    /\ ~hasTriplePrediction(roboMemory, predId)
    /\ prediction = TRUE

\* The observe calls that wrote the pair key / the triple key.
PairWrites(key) ==
    { i \in 1 .. NumObserved :
        /\ has_value(obsLog[i].last)
        /\ <<value(obsLog[i].last), obsLog[i].id>> = key }

TripleWrites(key) ==
    { i \in 1 .. NumObserved :
        /\ has_value(obsLog[i].last)
        /\ has_value(obsLog[i].lastLast)
        /\ <<value(obsLog[i].lastLast), value(obsLog[i].last), obsLog[i].id>> = key }

Latest(S) == CHOOSE i \in S : \A j \in S : j <= i

\* C7 (overwrite semantics): every pair key present holds the outcome of the
\* most recent observe call that ran with that pre-call lastPlanetID and that
\* nextPlanetID, and every triple key present the outcome of the most recent
\* observe call with that pre-call (lastLastPlanetID, lastPlanetID) and that
\* nextPlanetID.
C7_Overwrite ==
    /\ \A key \in DOMAIN roboMemory.planetPairObservations :
          /\ PairWrites(key) # {}
          /\ roboMemory.planetPairObservations[key]
                = obsLog[Latest(PairWrites(key))].outcome
    /\ \A key \in DOMAIN roboMemory.planetTripleObservations :
          /\ TripleWrites(key) # {}
          /\ roboMemory.planetTripleObservations[key]
                = obsLog[Latest(TripleWrites(key))].outcome

\* A triple key and a pair key were each written twice with different outcomes.
C7_Witness ==
    /\ \E key \in DOMAIN roboMemory.planetTripleObservations :
          \E i, j \in TripleWrites(key) : obsLog[i].outcome # obsLog[j].outcome
    /\ \E key \in DOMAIN roboMemory.planetPairObservations :
          \E i, j \in PairWrites(key) : obsLog[i].outcome # obsLog[j].outcome

\* C8 as stated: in a run of alternating predict/observe calls predict never
\* returns true three times in a row.
C8_AsStated == dayPredictionRun < 3

\* C8 amended: in a run of alternating predict/observe calls predict never
\* returns true three times in a row when each of those predictions but the
\* last was followed by an observe call recording day.
C8_ConfirmedDayCap == confirmedDayRun < 3

\* Two day predictions in a row, the first confirmed by an observed day.
C8_Witness ==
    /\ confirmedDayRun = 2
    /\ lastCall = "predict"
    /\ prediction = TRUE

\* ------------------------------------------------------ memory footprint
\* sizeof(std::uint64_t), sizeof(TimeStats) (two int), sizeof(bool), sizeof(int)
SizeofPlanetID == 8

SizeofTimeStats == 8

SizeofBool == 1

SizeofInt == 4

\* The limit of the static_assert.
MemoryLimit == 65536

\* Bytes of the keys and mapped values one RoboMemory holds, with the two
\* optionals (value and engaged flag) and the counter. Container nodes,
\* bucket arrays and padding come on top: this is the least the memory
\* occupies.
MemoryBytes(mem) ==
      Cardinality(DOMAIN mem.planetObservations) * (SizeofPlanetID + SizeofTimeStats)
    + Cardinality(DOMAIN mem.planetPairObservations) * (2 * SizeofPlanetID + SizeofBool)
    + Cardinality(DOMAIN mem.planetTripleObservations) * (3 * SizeofPlanetID + SizeofBool)
    + 2 * (SizeofPlanetID + SizeofBool)
    + SizeofInt

\* C9 (memory bound): after any sequence of observe calls the memory of one
\* RoboMemory, the entries of the three maps included, is at most 65536 bytes.
C9_MemoryBound == MemoryBytes(roboMemory) <= MemoryLimit

\* The reference policy of the decision: first matching rule wins.
ReferencePolicy(mem, n, hint) ==
    LET tripleRecorded ==
            /\ mem.lastLastPlanetID # nullopt
            /\ mem.lastPlanetID # nullopt
            /\ <<mem.lastLastPlanetID[1], mem.lastPlanetID[1], n>>
                  \in DOMAIN mem.planetTripleObservations
        pairRecorded ==
            /\ mem.lastPlanetID # nullopt
            /\ <<mem.lastPlanetID[1], n>> \in DOMAIN mem.planetPairObservations
    IN  CASE mem.consecutiveDayCount >= 2 -> FALSE
          [] /\ mem.consecutiveDayCount < 2
             /\ tripleRecorded /\ pairRecorded
             /\ mem.planetTripleObservations[
                    <<mem.lastLastPlanetID[1], mem.lastPlanetID[1], n>>] = hint
             /\ mem.planetPairObservations[<<mem.lastPlanetID[1], n>>] = hint
             -> hint
          [] OTHER ->
                IF n \in DOMAIN mem.planetObservations
                THEN mem.planetObservations[n].dayCount
                        > mem.planetObservations[n].nightCount
                ELSE hint

\* C10 (decision policy in strict order): predict returns the value of the
\* first matching rule of the reference policy: night on a streak of two,
\* else the hint when triple and pair are both recorded and both equal the
\* hint, else dayCount > nightCount when the planet has a record, else the hint.
C10_DecisionPolicy ==
    /\ \A n \in Planets, hint \in BOOLEAN :
          predictTimeOfDayOnNextPlanet(roboMemory, n, hint)
              = ReferencePolicy(roboMemory, n, hint)
    /\ lastCall = "predict" =>
          prediction = ReferencePolicy(roboMemory, predId, predHint)

\* A predict call that found a triple and a pair record disagreeing with each
\* other and returned the tie of the planet's tally (night) against the hint.
C10_Witness ==
    /\ lastCall = "predict"
    /\ hasTriplePrediction(roboMemory, predId)
    /\ hasPairPrediction(roboMemory, predId)
    /\ triplePrediction(roboMemory, predId) # pairPrediction(roboMemory, predId)
    /\ roboMemory.planetObservations[predId].dayCount
          = roboMemory.planetObservations[predId].nightCount
    /\ predHint = TRUE
    /\ prediction = FALSE

\* The planets some observe call has named as nextPlanetID.
ObservedPlanets == { obsLog[i].id : i \in 1 .. NumObserved }

\* C11 (default fallback for unseen planets): with consecutiveDayCount < 2,
\* predict(x, hint) returns hint for every planet x no observe call has named,
\* whatever the history of the other planets; neither a pair nor a triple
\* record is found for such an x.
C11_UnseenFallback ==
    /\ \A x \in Planets \ ObservedPlanets :
          /\ ~hasPairPrediction(roboMemory, x)
          /\ ~hasTriplePrediction(roboMemory, x)
          /\ ~MapFound(roboMemory.planetObservations, x)
          /\ roboMemory.consecutiveDayCount < 2 =>
                \A hint \in BOOLEAN :
                    predictTimeOfDayOnNextPlanet(roboMemory, x, hint) = hint
    /\ ( /\ lastCall = "predict"
         /\ predId \notin ObservedPlanets
         /\ roboMemory.consecutiveDayCount < 2 ) => prediction = predHint

\* A predict call for a planet never observed returned the hint (day) after
\* three observe calls of other planets had filled the three maps.
C11_Witness ==
    /\ lastCall = "predict"
    /\ predId \notin ObservedPlanets
    /\ roboMemory.planetTripleObservations # EmptyMap
    /\ roboMemory.consecutiveDayCount < 2
    /\ predHint = TRUE
    /\ prediction = TRUE

\* The identifier of the i-th observe call as an optional, disengaged for i < 1.
ObservedId(i) == IF i >= 1 THEN some(obsLog[i].id) ELSE nullopt

\* The pair keys and the triple keys built from the identifiers the observe
\* calls found in lastPlanetID and lastLastPlanetID when they started.
PreCallPairKeys ==
    { <<value(obsLog[i].last), obsLog[i].id>> :
        i \in { j \in 1 .. NumObserved : has_value(obsLog[j].last) } }

PreCallTripleKeys ==
    { <<value(obsLog[i].lastLast), value(obsLog[i].last), obsLog[i].id>> :
        i \in { j \in 1 .. NumObserved :
                  has_value(obsLog[j].last) /\ has_value(obsLog[j].lastLast) } }

\* C12 (history shift and key construction): after k observe calls
\* lastPlanetID is the identifier of the k-th call and lastLastPlanetID that of
\* the (k-1)-th (disengaged while there is none), each call having started
\* with the identifiers of the two calls before it; the keys of the pair and
\* of the triple map are exactly the keys built from those pre-call values.
C12_HistoryShift ==
    /\ roboMemory.lastPlanetID = ObservedId(NumObserved)
    /\ roboMemory.lastLastPlanetID = ObservedId(NumObserved - 1)
    /\ \A i \in 1 .. NumObserved :
          /\ obsLog[i].last = ObservedId(i - 1)
          /\ obsLog[i].lastLast = ObservedId(i - 2)
    /\ NumObserved >= 1 => roboMemory.lastLastPlanetID = obsLog[NumObserved].last
    /\ DOMAIN roboMemory.planetPairObservations = PreCallPairKeys
    /\ DOMAIN roboMemory.planetTripleObservations = PreCallTripleKeys

\* Three observe calls of three different planets: the window holds the last
\* two and the triple key is the three identifiers in the order of the calls.
C12_Witness ==
    /\ NumObserved = 3
    /\ lastCall = "observe"
    /\ Cardinality(ObservedPlanets) = 3
    /\ roboMemory.lastPlanetID = some(obsLog[3].id)
    /\ roboMemory.lastLastPlanetID = some(obsLog[2].id)
    /\ DOMAIN roboMemory.planetTripleObservations
          = { <<obsLog[1].id, obsLog[2].id, obsLog[3].id>> }

\* Length of the longest suffix of the log whose outcomes are all day.
RECURSIVE DaySuffix(_)
DaySuffix(log) ==
    IF log = <<>> THEN 0
    ELSE IF log[Len(log)].outcome
         THEN 1 + DaySuffix(SubSeq(log, 1, Len(log) - 1))
         ELSE 0

\* C13 (streak counter): consecutiveDayCount is the length of the longest
\* suffix of the observe calls whose outcomes are all day; it is 0 exactly
\* when there was no observe call or the most recent outcome was night, and it
\* is never negative.
C13_StreakCounter ==
    /\ roboMemory.consecutiveDayCount = DaySuffix(obsLog)
    /\ roboMemory.consecutiveDayCount >= 0
    /\ roboMemory.consecutiveDayCount = 0
          <=> (NumObserved = 0 \/ ~obsLog[NumObserved].outcome)

\* Day, night, day, day: the counter was reset by the night and stands at 2.
C13_Witness ==
    /\ NumObserved = 4
    /\ obsLog[1].outcome /\ ~obsLog[2].outcome
    /\ obsLog[3].outcome /\ obsLog[4].outcome
    /\ roboMemory.consecutiveDayCount = 2

\* Number of observe calls that named planet p with the outcome o.
ObserveCount(p, o) ==
    Cardinality({ i \in 1 .. NumObserved : obsLog[i].id = p /\ obsLog[i].outcome = o })

TallyMatchesLog ==
    /\ DOMAIN roboMemory.planetObservations = ObservedPlanets
    /\ \A p \in DOMAIN roboMemory.planetObservations :
          /\ roboMemory.planetObservations[p].dayCount = ObserveCount(p, TRUE)
          /\ roboMemory.planetObservations[p].nightCount = ObserveCount(p, FALSE)

TallyKept ==
    \A p \in DOMAIN roboMemory.planetObservations :
        /\ p \in DOMAIN roboMemory'.planetObservations
        /\ roboMemory'.planetObservations[p].dayCount
              >= roboMemory.planetObservations[p].dayCount
        /\ roboMemory'.planetObservations[p].nightCount
              >= roboMemory.planetObservations[p].nightCount

\* C14 (single-planet tally): planetObservations has a record for p exactly
\* when some observe call named p, its dayCount is the number of observe calls
\* (p, day) and its nightCount the number of observe calls (p, night); no step
\* removes a record or decreases a count.
C14_Tally == []TallyMatchesLog /\ [][TallyKept]_vars

\* One planet with days and a night on record, another with a record, and an
\* observe call just made.
C14_Witness ==
    /\ lastCall = "observe"
    /\ \E p \in DOMAIN roboMemory.planetObservations :
          /\ roboMemory.planetObservations[p].dayCount = 2
          /\ roboMemory.planetObservations[p].nightCount = 1
    /\ Cardinality(DOMAIN roboMemory.planetObservations) = 2

\* The history window: 0 = none, 1 = one-seen, 2 = two-or-more-seen.
Window(mem) ==
    IF ~has_value(mem.lastPlanetID) THEN 0
    ELSE IF ~has_value(mem.lastLastPlanetID) THEN 1
    ELSE 2

WindowFollowsObserves ==
    /\ NumObserved = 0 => Window(roboMemory) = 0
    /\ NumObserved = 1 => Window(roboMemory) = 1
    /\ NumObserved >= 2 => Window(roboMemory) = 2
    /\ has_value(roboMemory.lastLastPlanetID) => has_value(roboMemory.lastPlanetID)
    /\ NumObserved < 2 <=> roboMemory.planetPairObservations = EmptyMap
    /\ NumObserved < 3 <=> roboMemory.planetTripleObservations = EmptyMap

WindowAdvances ==
    /\ Window(roboMemory') >= Window(roboMemory)
    /\ (Window(roboMemory) = 0 /\ NumObserved' # NumObserved) =>
          /\ roboMemory'.planetPairObservations = roboMemory.planetPairObservations
          /\ roboMemory'.planetTripleObservations = roboMemory.planetTripleObservations
    /\ (Window(roboMemory) = 1 /\ NumObserved' # NumObserved) =>
          roboMemory'.planetTripleObservations = roboMemory.planetTripleObservations

\* C15 (history window state machine): the window is none before the first
\* observe call, one-seen after exactly one and two-or-more-seen after every
\* later one; it never moves backwards, lastLastPlanetID is never engaged
\* while lastPlanetID is not, and observe writes no pair in none and no triple
\* in none or one-seen, so the pair map is empty until the second observe call
\* and the triple map until the third.
C15_Window == []WindowFollowsObserves /\ [][WindowAdvances]_vars

\* After the third observe call: window two-or-more-seen, exactly two pair
\* writes and one triple write so far.
C15_Witness ==
    /\ NumObserved = 3
    /\ lastCall = "observe"
    /\ Window(roboMemory) = 2
    /\ Cardinality(DOMAIN roboMemory.planetTripleObservations) = 1
    /\ Cardinality(DOMAIN roboMemory.planetPairObservations) = 2

\* C16 (self-consistent snapshot after observe): after two or more observe
\* calls the pair map has an entry for (lastLastPlanetID, lastPlanetID) holding
\* the outcome of the most recent observe call, which is day exactly when
\* consecutiveDayCount >= 1; after three or more the triple map has an entry
\* for the last three observed identifiers with that same value; and
\* planetObservations has a record for lastPlanetID.
C16_Snapshot ==
    /\ NumObserved >= 2 =>
          LET key == <<value(roboMemory.lastLastPlanetID), value(roboMemory.lastPlanetID)>>
          IN  /\ MapFound(roboMemory.planetPairObservations, key)
              /\ roboMemory.planetPairObservations[key] = obsLog[NumObserved].outcome
              /\ roboMemory.planetPairObservations[key] = TRUE
                    <=> roboMemory.consecutiveDayCount >= 1
    /\ NumObserved >= 3 =>
          LET key == <<obsLog[NumObserved - 2].id, obsLog[NumObserved - 1].id,
                       obsLog[NumObserved].id>>
          IN  /\ MapFound(roboMemory.planetTripleObservations, key)
              /\ roboMemory.planetTripleObservations[key] = obsLog[NumObserved].outcome
              /\ roboMemory.planetTripleObservations[key]
                    = roboMemory.planetPairObservations[<<key[2], key[3]>>]
    /\ NumObserved >= 1 =>
          MapFound(roboMemory.planetObservations, value(roboMemory.lastPlanetID))

\* Four observe calls, the last one overwriting with night a pair and a triple
\* entry that held day.
C16_Witness ==
    /\ NumObserved = 4
    /\ lastCall = "observe"
    /\ ~obsLog[4].outcome
    /\ obsLog[3].outcome
    /\ obsLog[1].id = obsLog[2].id /\ obsLog[2].id = obsLog[3].id
    /\ obsLog[3].id = obsLog[4].id
    /\ roboMemory.consecutiveDayCount = 0

\* C17 (map nesting): every triple key (a,b,c) has its pair key (b,c) in the
\* pair map, and every pair key (a,b) has a and b in planetObservations; so a
\* triple lookup hit of predict comes with a pair lookup hit and with a record
\* for nextPlanetID, whatever the two values are.
C17_MapNesting ==
    /\ \A t \in DOMAIN roboMemory.planetTripleObservations :
          MapFound(roboMemory.planetPairObservations, <<t[2], t[3]>>)
    /\ \A p \in DOMAIN roboMemory.planetPairObservations :
          /\ MapFound(roboMemory.planetObservations, p[1])
          /\ MapFound(roboMemory.planetObservations, p[2])
    /\ \A n \in Planets :
          hasTriplePrediction(roboMemory, n) =>
              /\ hasPairPrediction(roboMemory, n)
              /\ MapFound(roboMemory.planetObservations, n)

\* A predict call whose triple lookup and pair lookup both hit, with
\* different values.
C17_Witness ==
    /\ lastCall = "predict"
    /\ ~StreakOverride(roboMemory)
    /\ hasTriplePrediction(roboMemory, predId)
    /\ hasPairPrediction(roboMemory, predId)
    /\ MapFound(roboMemory.planetObservations, predId)
    /\ triplePrediction(roboMemory, predId) # pairPrediction(roboMemory, predId)
    /\ roboMemory.lastLastPlanetID # roboMemory.lastPlanetID

\* Every key but those of the set touched is in both maps or in neither, with
\* the same value.
SameOutside(before, after, touched) ==
    \A k \in ((DOMAIN before) \cup (DOMAIN after)) \ touched :
        /\ k \in DOMAIN before
        /\ k \in DOMAIN after
        /\ after[k] = before[k]

ObserveFrame ==
    LET call == obsLog'[NumObserved + 1]
        n == call.id
        pairTouched ==
            IF has_value(call.last) THEN { <<value(call.last), n>> } ELSE {}
        tripleTouched ==
            IF has_value(call.last) /\ has_value(call.lastLast)
            THEN { <<value(call.lastLast), value(call.last), n>> }
            ELSE {}
        old == IF MapFound(roboMemory.planetObservations, n)
               THEN roboMemory.planetObservations[n]
               ELSE TimeStats
        new == roboMemory'.planetObservations[n]
    IN  /\ call.last = roboMemory.lastPlanetID
        /\ call.lastLast = roboMemory.lastLastPlanetID
        /\ SameOutside(roboMemory.planetObservations,
                       roboMemory'.planetObservations, {n})
        /\ SameOutside(roboMemory.planetPairObservations,
                       roboMemory'.planetPairObservations, pairTouched)
        /\ SameOutside(roboMemory.planetTripleObservations,
                       roboMemory'.planetTripleObservations, tripleTouched)
        /\ \/ new.dayCount = old.dayCount + 1 /\ new.nightCount = old.nightCount
           \/ new.dayCount = old.dayCount /\ new.nightCount = old.nightCount + 1

\* C18 (frame of observe): an observe call (n, o) changes at most the
\* planetObservations record of n, the pair entry of (pre-call lastPlanetID, n)
\* and the triple entry of (pre-call lastLastPlanetID, pre-call lastPlanetID,
\* n); every other record of the three maps keeps its value, and exactly one
\* of the two counters of n grows, by 1.
C18_ObserveFrame ==
    [][Len(obsLog') = Len(obsLog) + 1 => ObserveFrame]_vars

\* An observe call made when each of the three maps already held entries
\* under other keys.
C18_Witness ==
    /\ lastCall = "observe"
    /\ NumObserved >= 5
    /\ Cardinality(DOMAIN roboMemory.planetObservations) = 2
    /\ Cardinality(DOMAIN roboMemory.planetPairObservations) >= 3
    /\ Cardinality(DOMAIN roboMemory.planetTripleObservations) >= 3

\* The keys of the same arity over the planets that differ from key and have
\* its hash: among them its permutations.
Colliding(key) ==
    { k \in (IF Len(key) = 2 THEN Planets \X Planets
                             ELSE Planets \X Planets \X Planets) :
        k # key /\ KeyHash(k) = KeyHash(key) }

\* C19 (pair and triple keys are exact and ordered): a lookup of a pair or of
\* a triple hits exactly when an observe call wrote that very key, and then
\* returns the latest outcome written under it; an outcome recorded for (a,b)
\* is never returned for another key with the same XOR of hashes, such as
\* (b,a), and likewise for triples and their permutations.
C19_ExactKeys ==
    /\ \A k \in Planets \X Planets :
          /\ HashFound(roboMemory.planetPairObservations, k) <=> PairWrites(k) # {}
          /\ HashFound(roboMemory.planetPairObservations, k) =>
                HashAt(roboMemory.planetPairObservations, k)
                    = obsLog[Latest(PairWrites(k))].outcome
    /\ \A k \in Planets \X Planets \X Planets :
          /\ HashFound(roboMemory.planetTripleObservations, k) <=> TripleWrites(k) # {}
          /\ HashFound(roboMemory.planetTripleObservations, k) =>
                HashAt(roboMemory.planetTripleObservations, k)
                    = obsLog[Latest(TripleWrites(k))].outcome

\* A pair (a,b) and a triple are on record while the reversed pair (b,a) and
\* the reversed triple, which have the same hashes, were never written, and
\* their lookups miss.
C19_Witness ==
    /\ \E k \in DOMAIN roboMemory.planetPairObservations :
          /\ <<k[2], k[1]>> \in Colliding(k)
          /\ PairWrites(<<k[2], k[1]>>) = {}
          /\ ~HashFound(roboMemory.planetPairObservations, <<k[2], k[1]>>)
    /\ \E t \in DOMAIN roboMemory.planetTripleObservations :
          /\ <<t[3], t[2], t[1]>> \in Colliding(t)
          /\ TripleWrites(<<t[3], t[2], t[1]>>) = {}
          /\ ~HashFound(roboMemory.planetTripleObservations, <<t[3], t[2], t[1]>>)

====
